---- MODULE Spec2Model ----
(***************************************************************************)
(* A model of generate_definitions.py: the batch script that reads a CSV   *)
(* of key phrases, groups the rows by (legislation_term, legislation_id),  *)
(* builds one prompt per group, asks the remote service for a definition   *)
(* and writes the result table.                                            *)
(*                                                                         *)
(* Text is modelled by TLA+ strings.  A CSV cell after pandas' parsing is  *)
(* a record [na, s]: na = TRUE is NaN (a missing value), otherwise s is    *)
(* the cell's text.                                                        *)
(***************************************************************************)
EXTENDS Integers, Sequences, FiniteSets, TLC

VARIABLES
    pc,                 \* position of the script
    abort_reason,       \* the exception that ended the run, "" while none
    prompt_template,    \* the loaded template, a sequence of segments
    df,                 \* the parsed input table, a sequence of rows
    groups_list,        \* list(grouped): sequence of [key, idx]
    total_groups,       \* len(grouped)
    results,            \* the accumulated Result Records
    processed,          \* the processed-group counter
    prompt,             \* the prompt built for the current group
    calls,              \* what the remote service did, one entry per call
    intermediate_files, \* checkpoint files: processed count -> rows written
    final_writes,       \* every content written to the final output file
    summary,            \* the logged summary counts
    unit_df,            \* argument of a helper applied on its own
    unit_out            \* result of a helper applied on its own

vars == << pc, abort_reason, prompt_template, df, groups_list, total_groups,
           results, processed, prompt, calls, intermediate_files,
           final_writes, summary, unit_df, unit_out >>

----------------------------------------------------------------------------
(* Bounds of the model *)

MaxRows == 3
MaxBlocks == 2
MaxTermRows == 4
MaxParaRows == 3

(* Constants of the program *)

CheckpointEvery == 10
GroupLimit == 1

Placeholder == "Error: Could not generate definition"
NoneIdentified == "None identified"
BlockSeparator == "\n---\n\n"
ErrorPattern == "Error"

----------------------------------------------------------------------------
(* Text helpers *)

Min(a, b) == IF a < b THEN a ELSE b

Whitespace == {" ", "\t", "\n", "\r", "\f"}

CharAt(s, i) == SubSeq(s, i, i)

RECURSIVE LStrip(_)
LStrip(s) ==
    IF Len(s) > 0 /\ CharAt(s, 1) \in Whitespace
    THEN LStrip(SubSeq(s, 2, Len(s)))
    ELSE s

RECURSIVE RStrip(_)
RStrip(s) ==
    IF Len(s) > 0 /\ CharAt(s, Len(s)) \in Whitespace
    THEN RStrip(SubSeq(s, 1, Len(s) - 1))
    ELSE s

\* str.strip()
Strip(s) == RStrip(LStrip(s))

\* sep.join(list)
RECURSIVE Join(_, _)
Join(list, sep) ==
    IF Len(list) = 0 THEN ""
    ELSE IF Len(list) = 1 THEN list[1]
    ELSE list[1] \o sep \o Join(Tail(list), sep)

\* Series.str.contains(pat) for a pattern without regex metacharacters
Contains(s, pat) ==
    \E i \in 1..(Len(s) - Len(pat) + 1) : SubSeq(s, i, i + Len(pat) - 1) = pat

----------------------------------------------------------------------------
(* Cells and rows *)

NaN == [na |-> TRUE, s |-> ""]
Str(s) == [na |-> FALSE, s |-> s]

\* pandas' default na_values that the inputs of the model use
NaValues == {"", "NA", "N/A", "NULL", "NaN", "nan", "null", "n/a", "#N/A"}

\* read_csv's conversion of one cell
ReadCell(raw) == IF raw \in NaValues THEN NaN ELSE Str(raw)

\* read_csv's conversion of one line
ReadRow(raw) ==
    [legislation_term |-> ReadCell(raw.legislation_term),
     legislation_id   |-> ReadCell(raw.legislation_id),
     section_text     |-> ReadCell(raw.section_text),
     url              |-> ReadCell(raw.url),
     para_id          |-> ReadCell(raw.para_id),
     paragraphs       |-> ReadCell(raw.paragraphs),
     case_term        |-> ReadCell(raw.case_term)]

ReadTable(rawTable) == [i \in 1..Len(rawTable) |-> ReadRow(rawTable[i])]

\* str(value) inside an f-string or str.format
Format(cell) == IF cell.na THEN "nan" ELSE cell.s

RawRow(term, id, sect, url, para_id, paragraphs, case_term) ==
    [legislation_term |-> term, legislation_id |-> id, section_text |-> sect,
     url |-> url, para_id |-> para_id, paragraphs |-> paragraphs,
     case_term |-> case_term]

\* all sequences over S of length at most n
SeqsUpTo(S, n) == UNION {[1..k -> S] : k \in 0..n}

----------------------------------------------------------------------------
(* Prompt Builder *)

\* the rows of a group, in the order of its index
GroupRows(d, g) == [k \in 1..Len(g.idx) |-> d[g.idx[k]]]

\* Series.dropna() on a column given as a sequence of cells
DropNa(cells) == SelectSeq(cells, LAMBDA c : ~c.na)

\* Series.unique(): the values in order of first appearance
RECURSIVE Unique(_)
Unique(cells) ==
    IF Len(cells) = 0 THEN << >>
    ELSE LET init == Unique(SubSeq(cells, 1, Len(cells) - 1))
             last == cells[Len(cells)]
         IN  IF \E k \in 1..Len(init) : init[k] = last
             THEN init
             ELSE Append(init, last)

Column(rows, name) == [k \in 1..Len(rows) |-> rows[k][name]]

Texts(cells) == [k \in 1..Len(cells) |-> cells[k].s]

get_case_terms_no_unique(rows) ==
    LET case_terms == Texts(DropNa(Column(rows, "case_term")))
    IN  IF Len(case_terms) > 0 THEN Join(case_terms, ", ") ELSE NoneIdentified

get_case_terms(rows) ==
    LET case_terms == Texts(Unique(DropNa(Column(rows, "case_term"))))
    IN  IF Len(case_terms) > 0 THEN Join(case_terms, ", ") ELSE NoneIdentified

CaseLawBlock(row) ==
    "Case Law: " \o Format(row.url) \o " (Paragraph: " \o Format(row.para_id)
        \o ")\n" \o row.paragraphs.s \o "\n"

\* the list built by the loop of format_case_law_paragraphs
RECURSIVE paragraphs_list(_)
paragraphs_list(rows) ==
    IF Len(rows) = 0 THEN << >>
    ELSE LET init == paragraphs_list(SubSeq(rows, 1, Len(rows) - 1))
             row  == rows[Len(rows)]
         IN  IF ~row.paragraphs.na /\ Strip(row.paragraphs.s) # ""
             THEN Append(init, CaseLawBlock(row))
             ELSE init

RECURSIVE paragraphs_list_no_strip(_)
paragraphs_list_no_strip(rows) ==
    IF Len(rows) = 0 THEN << >>
    ELSE LET init == paragraphs_list_no_strip(SubSeq(rows, 1, Len(rows) - 1))
             row  == rows[Len(rows)]
         IN  IF ~row.paragraphs.na /\ row.paragraphs.s # ""
             THEN Append(init, CaseLawBlock(row))
             ELSE init

format_case_law_paragraphs_no_strip(rows) ==
    Join(paragraphs_list_no_strip(rows), BlockSeparator)

format_case_law_paragraphs(rows) == Join(paragraphs_list(rows), BlockSeparator)

\* group_df['section_text'].dropna().iloc[0], "" when all are missing
SectionText(rows) ==
    LET present == DropNa(Column(rows, "section_text"))
    IN  IF Len(present) > 0 THEN present[1].s ELSE ""

\* A template is a sequence of segments: literal text or a replacement field.
Lit(s) == [field |-> FALSE, s |-> s]
Field(name) == [field |-> TRUE, s |-> name]

\* str.format(**args): KeyError when a field names no argument
FormatTemplate(template, args) ==
    LET known == \A k \in 1..Len(template) :
                    template[k].field => template[k].s \in DOMAIN args
        piece(seg) == IF seg.field THEN args[seg.s] ELSE seg.s
    IN  IF known
        THEN [ok |-> TRUE,
              text |-> Join([k \in 1..Len(template) |-> piece(template[k])], "")]
        ELSE [ok |-> FALSE, text |-> ""]

\* process_group up to the formatted prompt
BuildPrompt(template, key, rows) ==
    FormatTemplate(template,
        [legislation_term    |-> key[1],
         legislation_id      |-> key[2],
         section_text        |-> SectionText(rows),
         case_law_paragraphs |-> format_case_law_paragraphs(rows),
         case_terms          |-> get_case_terms(rows)])

----------------------------------------------------------------------------
(* Definition Generator *)

\* the concatenation of the text-typed content blocks
RECURSIVE ResponseText(_)
ResponseText(content) ==
    IF Len(content) = 0 THEN ""
    ELSE (IF content[1].type = "text" THEN content[1].text ELSE "")
            \o ResponseText(Tail(content))

\* call_claude_sonnet: the stripped text, or the exception re-raised
call_claude_sonnet(outcome) ==
    IF outcome.raised
    THEN [raised |-> TRUE, text |-> ""]
    ELSE [raised |-> FALSE, text |-> Strip(ResponseText(outcome.content))]

None == [none |-> TRUE, s |-> ""]
Some(s) == [none |-> FALSE, s |-> s]

\* the try/except of process_group around the call
process_group_call(outcome) ==
    LET r == call_claude_sonnet(outcome)
    IN  IF r.raised THEN None ELSE Some(r.text)

\* Python truthiness of an Optional[str]
Truthy(definition) == ~definition.none /\ definition.s # ""

ResultRecordKeepFalsy(key, definition) ==
    [legislation_id |-> key[2],
     legislation_term |-> key[1],
     legislation_term_definition |-> definition.s]

\* the dict appended to results
ResultRecord(key, definition) ==
    [legislation_id |-> key[2],
     legislation_term |-> key[1],
     legislation_term_definition |->
        IF Truthy(definition) THEN definition.s ELSE Placeholder]

----------------------------------------------------------------------------
(* Grouper *)

\* code-point order of the characters the inputs use
CodeOrder == " 0123456789abcdefghijklmnopqrstuvwxyz"

CharRank(c) == CHOOSE i \in 1..Len(CodeOrder) : CharAt(CodeOrder, i) = c

\* Python's < on str
RECURSIVE StrLess(_, _)
StrLess(a, b) ==
    IF Len(b) = 0 THEN FALSE
    ELSE IF Len(a) = 0 THEN TRUE
    ELSE IF CharAt(a, 1) = CharAt(b, 1)
         THEN StrLess(SubSeq(a, 2, Len(a)), SubSeq(b, 2, Len(b)))
         ELSE CharRank(CharAt(a, 1)) < CharRank(CharAt(b, 1))

KeyLess(k1, k2) ==
    StrLess(k1[1], k2[1]) \/ (k1[1] = k2[1] /\ StrLess(k1[2], k2[2]))

\* a row takes part in the grouping when both key cells are present
HasKey(row) == ~row.legislation_term.na /\ ~row.legislation_id.na

KeyOf(row) == << row.legislation_term.s, row.legislation_id.s >>

GroupKeys(d) == {KeyOf(d[i]) : i \in {j \in 1..Len(d) : HasKey(d[j])}}

RECURSIVE SortKeys(_)
SortKeys(S) ==
    IF S = {} THEN << >>
    ELSE LET least == CHOOSE k \in S : \A o \in S \ {k} : KeyLess(k, o)
         IN  << least >> \o SortKeys(S \ {least})

\* the indices of the rows of key k, ascending
RECURSIVE IndexOf(_, _, _)
IndexOf(d, k, n) ==
    IF n = 0 THEN << >>
    ELSE IF HasKey(d[n]) /\ KeyOf(d[n]) = k
         THEN Append(IndexOf(d, k, n - 1), n)
         ELSE IndexOf(d, k, n - 1)

\* list(df.groupby(['legislation_term', 'legislation_id'])): sorted keys,
\* rows with a missing key cell dropped
GroupBy(d) ==
    LET keys == SortKeys(GroupKeys(d))
    IN  [g \in 1..Len(keys) |-> [key |-> keys[g], idx |-> IndexOf(d, keys[g], Len(d))]]

----------------------------------------------------------------------------
(* Inputs of a run *)

TemplateFields ==
    {"legislation_term", "legislation_id", "section_text",
     "case_law_paragraphs", "case_terms"}

GoodTemplate ==
    << Lit("Define "), Field("legislation_term"), Lit(" in "),
       Field("legislation_id"), Lit(".\nSection:\n"), Field("section_text"),
       Lit("\nCase law:\n"), Field("case_law_paragraphs"),
       Lit("\nCase terms: "), Field("case_terms") >>

\* a template with a replacement field process_group does not pass
UnknownFieldTemplate ==
    << Lit("Define "), Field("legislation_term"), Lit(" like "),
       Field("examples") >>

TemplateFiles == {GoodTemplate, UnknownFieldTemplate}

RawKeys == { <<"duty", "s1">>, <<"breach", "s1">> }

\* keys with an empty cell, which read_csv turns into NaN
RawKeysWithMissing == { <<"", "s1">>, <<"duty", "">> }

MainRawRows ==
    { RawRow(k[1], k[2], "text of " \o k[2], "u1", "7", p, "negligence") :
        k \in RawKeys, p \in {"", "p1"} }
    \cup
    { RawRow(k[1], k[2], "", "u1", "7", "p1", "negligence") :
        k \in RawKeysWithMissing }

WideTerms == << "tort", "harm", "duty", "breach" >>
WideIds == << "s3", "s2", "s1" >>

WideKey(i) ==
    << WideTerms[((i - 1) \div Len(WideIds)) + 1],
       WideIds[((i - 1) % Len(WideIds)) + 1] >>

\* a table of n rows with n different keys, in descending key order
WideTable(n) ==
    [i \in 1..n |-> RawRow(WideKey(i)[1], WideKey(i)[2], "text", "u1", "7", "p1", "")]

RawTables ==
    SeqsUpTo(MainRawRows, MaxRows)
        \cup {WideTable(n) : n \in {CheckpointEvery, CheckpointEvery + 1}}

\* The input file: whether it exists, whether it decodes and parses as UTF-8,
\* whether it does as Latin-1, and its lines.
CsvFiles ==
    [exists : BOOLEAN, utf8 : BOOLEAN, latin1 : BOOLEAN, table : RawTables]

ContentBlocks ==
    {[type |-> "text", text |-> t] : t \in {"", "Error of law.", " A duty. "}}
        \cup {[type |-> "tool_use", text |-> ""]}

\* what one call of the remote service does: it raises, or it answers
Outcomes ==
    {[raised |-> TRUE, content |-> << >>]}
        \cup {[raised |-> FALSE, content |-> c] : c \in SeqsUpTo(ContentBlocks, MaxBlocks)}

NoSummary == [logged |-> FALSE, successful |-> 0, failed |-> 0]
NoPrompt == [ok |-> FALSE, text |-> ""]

----------------------------------------------------------------------------
(* The run *)

Init ==
    /\ pc = "import"
    /\ abort_reason = ""
    /\ prompt_template = << >>
    /\ df = << >>
    /\ groups_list = << >>
    /\ total_groups = 0
    /\ results = << >>
    /\ processed = 0
    /\ prompt = NoPrompt
    /\ calls = << >>
    /\ intermediate_files = << >>
    /\ final_writes = << >>
    /\ summary = NoSummary
    /\ unit_df = << >>
    /\ unit_out = ""

Abort(reason) ==
    /\ pc' = "aborted"
    /\ abort_reason' = reason

\* module level: ANTHROPIC_API_KEY is set, the client is built, main() starts
ImportWithApiKey ==
    /\ pc = "import"
    /\ pc' = "load_template"
    /\ UNCHANGED << abort_reason, prompt_template, df, groups_list, total_groups,
                    results, processed, prompt, calls, intermediate_files,
                    final_writes, summary, unit_df, unit_out >>

\* module level: no ANTHROPIC_API_KEY, ValueError
ImportWithoutApiKey ==
    /\ pc = "import"
    /\ Abort("ValueError: ANTHROPIC_API_KEY not found")
    /\ UNCHANGED << prompt_template, df, groups_list, total_groups,
                    results, processed, prompt, calls, intermediate_files,
                    final_writes, summary, unit_df, unit_out >>

\* load_prompt_template, prompt.txt present
load_prompt_template ==
    /\ pc = "load_template"
    /\ \E t \in TemplateFiles : prompt_template' = t
    /\ pc' = "read_csv"
    /\ UNCHANGED << abort_reason, df, groups_list, total_groups,
                    results, processed, prompt, calls, intermediate_files,
                    final_writes, summary, unit_df, unit_out >>

\* load_prompt_template, prompt.txt missing: logged and re-raised
load_prompt_template_missing ==
    /\ pc = "load_template"
    /\ Abort("FileNotFoundError: prompt.txt")
    /\ UNCHANGED << prompt_template, df, groups_list, total_groups,
                    results, processed, prompt, calls, intermediate_files,
                    final_writes, summary, unit_df, unit_out >>

CsvLoads(file) == file.exists /\ (file.utf8 \/ file.latin1)

\* read_csv as UTF-8, on UnicodeDecodeError as Latin-1
read_csv ==
    /\ pc = "read_csv"
    /\ \E file \in CsvFiles :
        /\ CsvLoads(file)
        /\ df' = ReadTable(file.table)
    /\ pc' = "group"
    /\ UNCHANGED << abort_reason, prompt_template, groups_list, total_groups,
                    results, processed, prompt, calls, intermediate_files,
                    final_writes, summary, unit_df, unit_out >>

\* a failed read that is swallowed and leaves an empty table
read_csv_fails_swallowed ==
    /\ pc = "read_csv"
    /\ \E file \in CsvFiles :
        /\ ~CsvLoads(file)
        /\ abort_reason' = (IF file.exists THEN "read_csv: both encodings failed"
                                           ELSE "FileNotFoundError: csv")
    /\ pc' = "group"
    /\ UNCHANGED << prompt_template, df, groups_list, total_groups,
                    results, processed, prompt, calls, intermediate_files,
                    final_writes, summary, unit_df, unit_out >>

\* read_csv raises: the file is missing, or neither encoding reads it
read_csv_fails ==
    /\ pc = "read_csv"
    /\ \E file \in CsvFiles :
        /\ ~CsvLoads(file)
        /\ Abort(IF file.exists THEN "read_csv: both encodings failed"
                                ELSE "FileNotFoundError: csv")
    /\ UNCHANGED << prompt_template, df, groups_list, total_groups,
                    results, processed, prompt, calls, intermediate_files,
                    final_writes, summary, unit_df, unit_out >>

\* grouped = df.groupby(...); groups_list = list(grouped); results = []
group_rows ==
    /\ pc = "group"
    /\ groups_list' = GroupBy(df)
    /\ total_groups' = Len(GroupBy(df))
    /\ results' = << >>
    /\ processed' = 0
    /\ pc' = "loop"
    /\ UNCHANGED << abort_reason, prompt_template, df, prompt, calls,
                    intermediate_files, final_writes, summary, unit_df, unit_out >>

\* groups_list[:1]
LoopGroups == SubSeq(groups_list, 1, Min(GroupLimit, Len(groups_list)))

\* the head of an iteration: processed += 1, process_group formats the prompt
build_prompt ==
    /\ pc = "loop"
    /\ processed < Len(LoopGroups)
    /\ LET g == LoopGroups[processed + 1]
           p == BuildPrompt(prompt_template, g.key, GroupRows(df, g))
       IN  /\ p.ok
           /\ prompt' = p
    /\ processed' = processed + 1
    /\ pc' = "call"
    /\ UNCHANGED << abort_reason, prompt_template, df, groups_list, total_groups,
                    results, calls, intermediate_files, final_writes, summary,
                    unit_df, unit_out >>

\* prompt_template.format raises KeyError, outside any try: main() ends
build_prompt_raises ==
    /\ pc = "loop"
    /\ processed < Len(LoopGroups)
    /\ LET g == LoopGroups[processed + 1]
       IN  ~BuildPrompt(prompt_template, g.key, GroupRows(df, g)).ok
    /\ processed' = processed + 1
    /\ Abort("KeyError: prompt_template.format")
    /\ UNCHANGED << prompt_template, df, groups_list, total_groups,
                    results, prompt, calls, intermediate_files, final_writes,
                    summary, unit_df, unit_out >>

SaveIntermediateAlways(files, count, rows) ==
    Append(files, [processed |-> count, rows |-> rows])

\* pd.DataFrame(results).to_csv(intermediate_file) when processed % 10 == 0
SaveIntermediate(files, count, rows) ==
    IF count % CheckpointEvery = 0
    THEN Append(files, [processed |-> count, rows |-> rows])
    ELSE files

AppendResultOnSuccess(rows, key, definition) ==
    IF definition.none THEN rows ELSE Append(rows, ResultRecord(key, definition))

\* results.append({...})
AppendResult(rows, key, definition) ==
    Append(rows, ResultRecord(key, definition))

\* an iteration whose except clause re-raises instead of returning None
call_and_store_uncaught ==
    /\ pc = "call"
    /\ \E outcome \in Outcomes :
        LET definition == process_group_call(outcome)
            stored == AppendResult(results, LoopGroups[processed].key, definition)
        IN  /\ calls' = Append(calls, outcome)
            /\ results' = IF outcome.raised THEN results ELSE stored
            /\ intermediate_files' =
                    IF outcome.raised THEN intermediate_files
                    ELSE SaveIntermediate(intermediate_files, processed, stored)
            /\ pc' = IF outcome.raised THEN "aborted" ELSE "loop"
            /\ abort_reason' = IF outcome.raised THEN "remote call" ELSE abort_reason
    /\ UNCHANGED << prompt_template, df, groups_list, total_groups,
                    processed, prompt, final_writes, summary, unit_df, unit_out >>

\* the rest of an iteration: the remote call inside process_group's try, the
\* record appended, the intermediate save
call_and_store ==
    /\ pc = "call"
    /\ \E outcome \in Outcomes :
        LET definition == process_group_call(outcome)
            stored == AppendResult(results, LoopGroups[processed].key, definition)
        IN  /\ calls' = Append(calls, outcome)
            /\ results' = stored
            /\ intermediate_files' =
                    SaveIntermediate(intermediate_files, processed, stored)
    /\ pc' = "loop"
    /\ UNCHANGED << abort_reason, prompt_template, df, groups_list, total_groups,
                    processed, prompt, final_writes, summary, unit_df, unit_out >>

\* after the loop: results_df.to_csv(output_file)
write_final ==
    /\ pc = "loop"
    /\ processed >= Len(LoopGroups)
    /\ final_writes' = Append(final_writes, results)
    /\ pc' = "summary"
    /\ UNCHANGED << abort_reason, prompt_template, df, groups_list, total_groups,
                    results, processed, prompt, calls, intermediate_files,
                    summary, unit_df, unit_out >>

\* results_df['legislation_term_definition'].str.contains('Error').sum()
CountErrors(rows) ==
    Cardinality({i \in 1..Len(rows) :
                    Contains(rows[i].legislation_term_definition, ErrorPattern)})

\* the summary lines
log_summary ==
    /\ pc = "summary"
    /\ Len(results) > 0
    /\ summary' = [logged |-> TRUE,
                   successful |-> Len(results) - CountErrors(results),
                   failed |-> CountErrors(results)]
    /\ pc' = "done"
    /\ UNCHANGED << abort_reason, prompt_template, df, groups_list, total_groups,
                    results, processed, prompt, calls, intermediate_files,
                    final_writes, unit_df, unit_out >>

\* with no record pd.DataFrame([]) has no columns: the column lookup raises
log_summary_raises ==
    /\ pc = "summary"
    /\ Len(results) = 0
    /\ Abort("KeyError: legislation_term_definition")
    /\ UNCHANGED << prompt_template, df, groups_list, total_groups,
                    results, processed, prompt, calls, intermediate_files,
                    final_writes, summary, unit_df, unit_out >>

Next ==
    \/ ImportWithApiKey
    \/ ImportWithoutApiKey
    \/ load_prompt_template
    \/ load_prompt_template_missing
    \/ read_csv
    \/ read_csv_fails
    \/ group_rows
    \/ build_prompt
    \/ build_prompt_raises
    \/ call_and_store
    \/ write_final
    \/ log_summary
    \/ log_summary_raises

Spec == Init /\ [][Next]_vars

\* The script is sequential and every statement returns or raises (the remote
\* call blocks until it answers or fails), so the rest of an iteration and the
\* steps after the loop are taken when they can be.
FairSpec ==
    /\ Spec
    /\ WF_vars(call_and_store)
    /\ WF_vars(write_final)
    /\ WF_vars(log_summary)
    /\ WF_vars(log_summary_raises)

----------------------------------------------------------------------------
(* The helpers of the Prompt Builder applied on their own *)

MainIdle ==
    /\ abort_reason = ""
    /\ prompt_template = << >>
    /\ df = << >>
    /\ groups_list = << >>
    /\ total_groups = 0
    /\ results = << >>
    /\ processed = 0
    /\ prompt = NoPrompt
    /\ calls = << >>
    /\ intermediate_files = << >>
    /\ final_writes = << >>
    /\ summary = NoSummary

main_vars == << abort_reason, prompt_template, df, groups_list, total_groups,
                results, processed, prompt, calls, intermediate_files,
                final_writes, summary >>

CaseTermRawRows ==
    { RawRow("duty", "s1", "text", "u1", "7", "p1", c) :
        c \in {"", "negligence", "duty of care", " "} }

InitCaseTerms ==
    /\ pc = "unit"
    /\ MainIdle
    /\ unit_df \in {ReadTable(t) : t \in SeqsUpTo(CaseTermRawRows, MaxTermRows)}
    /\ unit_out = ""

apply_get_case_terms ==
    /\ pc = "unit"
    /\ unit_out' = get_case_terms(unit_df)
    /\ pc' = "unit_done"
    /\ UNCHANGED << main_vars, unit_df >>

SpecCaseTerms == InitCaseTerms /\ [][apply_get_case_terms]_vars

CaseLawRawRows ==
    { RawRow("duty", "s1", "text", u, "7", p, "") :
        u \in {"", "u1"}, p \in {"", " \n", "p1", " q\t"} }

InitCaseLaw ==
    /\ pc = "unit"
    /\ MainIdle
    /\ unit_df \in {ReadTable(t) : t \in SeqsUpTo(CaseLawRawRows, MaxParaRows)}
    /\ unit_out = ""

apply_format_case_law_paragraphs ==
    /\ pc = "unit"
    /\ unit_out' = format_case_law_paragraphs(unit_df)
    /\ pc' = "unit_done"
    /\ UNCHANGED << main_vars, unit_df >>

SpecCaseLaw == InitCaseLaw /\ [][apply_format_case_law_paragraphs]_vars

----------------------------------------------------------------------------
(* Properties *)

Definition(i) == results[i].legislation_term_definition

\* the number of distinct (legislation_term, legislation_id) pairs of the table
NumGroups ==
    Cardinality({ << df[i].legislation_term.s, df[i].legislation_id.s >> :
                    i \in {j \in 1..Len(df) :
                             ~df[j].legislation_term.na /\ ~df[j].legislation_id.na} })

AtLoopHeadOrAfter == pc \in {"loop", "summary", "done"}

\* C1: between iterations and after the loop there is exactly one record per
\* processed group and one call per record, and the content written to the
\* final output file has min(GroupLimit, G) records, G the number of groups.
C1_OneRecordPerProcessedGroup ==
    /\ AtLoopHeadOrAfter =>
          /\ Len(results) = processed
          /\ Len(calls) = processed
          /\ processed <= Min(GroupLimit, NumGroups)
    /\ \A w \in 1..Len(final_writes) :
          Len(final_writes[w]) = Min(GroupLimit, NumGroups)

C1_Witness ==
    /\ Len(final_writes) = 1
    /\ NumGroups >= 2
    /\ Len(final_writes[1]) = 1
    /\ calls[1].raised

\* C2: a group whose remote call raised has the placeholder as its
\* definition; the failure is not retried and does not abort the run.
C2_FailureGivesPlaceholder ==
    /\ \A i \in 1..Len(results) :
          calls[i].raised => Definition(i) = Placeholder
    /\ Len(calls) <= processed
    /\ (pc # "call") => Len(results) = Len(calls)
    /\ (Len(calls) > 0 /\ calls[Len(calls)].raised) => pc # "aborted"

C2_Witness ==
    /\ pc = "done"
    /\ calls[1].raised
    /\ Definition(1) = Placeholder
    /\ Len(final_writes) = 1

\* C3 (as claimed): a response without text, or with whitespace only, is
\* stored as the empty string and is not the error placeholder.
C3_EmptyResponseStoredEmpty ==
    \A i \in 1..Len(results) :
        (~calls[i].raised /\ Strip(ResponseText(calls[i].content)) = "")
            => Definition(i) = ""

FilesAt(c) == {k \in 1..Len(intermediate_files) : intermediate_files[k].processed = c}

\* C4 (as claimed): when the run is done, every positive multiple c of
\* CheckpointEvery up to the number of groups has a checkpoint file of c rows.
C4_CheckpointAtEveryMultiple ==
    pc = "done" =>
        \A c \in 1..total_groups :
            c % CheckpointEvery = 0 =>
                \E k \in FilesAt(c) : Len(intermediate_files[k].rows) = c

\* C4 (amended): a checkpoint exists for c exactly when c is a positive
\* multiple of CheckpointEvery that the counter has reached, and it holds the
\* first c records; the counter never passes GroupLimit, so no checkpoint
\* file is ever written.
C4_NoCheckpointUnderGroupLimit ==
    /\ \A c \in 1..Len(results) :
          IF c % CheckpointEvery = 0
          THEN \E k \in FilesAt(c) :
                  intermediate_files[k].rows = SubSeq(results, 1, c)
          ELSE FilesAt(c) = {}
    /\ \A k \in 1..Len(intermediate_files) :
          intermediate_files[k].processed \in 1..Len(results)
    /\ processed <= GroupLimit
    /\ intermediate_files = << >>

C4_Witness ==
    /\ pc = "done"
    /\ total_groups >= CheckpointEvery
    /\ Len(results) = 1
    /\ intermediate_files = << >>

Grouped == pc \in {"loop", "call", "summary", "done"}

GroupsOfRow(i) ==
    {g \in 1..Len(groups_list) :
        \E k \in 1..Len(groups_list[g].idx) : groups_list[g].idx[k] = i}

\* C5 (as claimed): after grouping every row of the table, rows with a
\* missing key cell included, is in exactly one group, no two groups share a
\* key, and each group keeps its rows in input order.
C5_GroupingIsPartition ==
    Grouped =>
        /\ \A i \in 1..Len(df) : Cardinality(GroupsOfRow(i)) = 1
        /\ \A g, h \in 1..Len(groups_list) :
              groups_list[g].key = groups_list[h].key => g = h
        /\ \A g \in 1..Len(groups_list) :
              \A k \in 1..(Len(groups_list[g].idx) - 1) :
                  groups_list[g].idx[k] < groups_list[g].idx[k + 1]

NumPlaceholders ==
    Cardinality({i \in 1..Len(results) : Definition(i) = Placeholder})

\* C6 (as claimed): the logged failures are the records that hold the
\* placeholder, the logged successes are the other records.
C6_SummaryCountsPlaceholders ==
    summary.logged =>
        /\ summary.failed = NumPlaceholders
        /\ summary.successful = Len(results) - NumPlaceholders

StartupFailures ==
    {"FileNotFoundError: prompt.txt", "FileNotFoundError: csv",
     "read_csv: both encodings failed"}

\* C7: a run ended by a missing template or an unreadable input file has
\* made no remote call and has written no checkpoint and no final output.
C7_StartupFailureWritesNothing ==
    abort_reason \in StartupFailures =>
        /\ pc = "aborted"
        /\ calls = << >>
        /\ prompt = NoPrompt
        /\ intermediate_files = << >>
        /\ final_writes = << >>

C7_Witness ==
    /\ pc = "aborted"
    /\ abort_reason = "read_csv: both encodings failed"
    /\ prompt_template # << >>

\* the case terms that count: present and not the empty string
CountedTerm(i) == ~unit_df[i].case_term.na /\ unit_df[i].case_term.s # ""

FirstOccurrences ==
    {i \in 1..Len(unit_df) :
        /\ CountedTerm(i)
        /\ \A j \in 1..(i - 1) :
              CountedTerm(j) => unit_df[j].case_term.s # unit_df[i].case_term.s}

\* a set of positions as the ascending sequence of the texts found there
RECURSIVE TermsAt(_)
TermsAt(P) ==
    IF P = {} THEN << >>
    ELSE LET m == CHOOSE i \in P : \A j \in P : j <= i
         IN  Append(TermsAt(P \ {m}), unit_df[m].case_term.s)

NegligenceExample ==
    /\ Len(unit_df) = 4
    /\ unit_df[1].case_term = Str("negligence")
    /\ unit_df[2].case_term = Str("negligence")
    /\ unit_df[3].case_term = Str("duty of care")
    /\ unit_df[4].case_term = NaN

\* C8: get_case_terms returns the distinct present case terms in order of
\* first occurrence joined with ", ", and "None identified" when there is none;
\* for [negligence, negligence, duty of care, missing] it returns
\* "negligence, duty of care".
C8_CaseTermsDistinctInOrder ==
    pc = "unit_done" =>
        /\ unit_out = (IF FirstOccurrences = {} THEN "None identified"
                       ELSE Join(TermsAt(FirstOccurrences), ", "))
        /\ NegligenceExample => unit_out = "negligence, duty of care"

C8_Witness ==
    /\ pc = "unit_done"
    /\ NegligenceExample
    /\ unit_out = "negligence, duty of care"

\* a paragraph that counts: present with a character that is not whitespace
HasText(i) ==
    /\ ~unit_df[i].paragraphs.na
    /\ \E k \in 1..Len(unit_df[i].paragraphs.s) :
          CharAt(unit_df[i].paragraphs.s, k) \notin Whitespace

ExpectedBlock(i) ==
    Join(<< "Case Law: ", Format(unit_df[i].url), " (Paragraph: ",
            Format(unit_df[i].para_id), ")\n", unit_df[i].paragraphs.s, "\n" >>, "")

RECURSIVE BlocksAt(_)
BlocksAt(P) ==
    IF P = {} THEN << >>
    ELSE LET m == CHOOSE i \in P : \A j \in P : j <= i
         IN  Append(BlocksAt(P \ {m}), ExpectedBlock(m))

Occurrences(s, pat) ==
    Cardinality({i \in 1..(Len(s) - Len(pat) + 1) :
                    SubSeq(s, i, i + Len(pat) - 1) = pat})

RowsWithText == {i \in 1..Len(unit_df) : HasText(i)}

C10_NoAbortWhileProcessing ==
    ~(pc = "aborted" /\ processed > 0)

\* C10 (amended): once a group's prompt is built, the run reaches Done with
\* the final output written exactly once, whatever the remote call does; an
\* error of the prompt formatting ends the run with nothing written.
C10_RemoteFailureNeverStopsRun ==
    /\ (pc = "call") ~> (pc = "done" /\ Len(final_writes) = 1)
    /\ [](abort_reason = "KeyError: prompt_template.format" =>
            (pc = "aborted" /\ final_writes = << >> /\ calls = << >>))

C10_Witness ==
    /\ pc = "done"
    /\ Len(final_writes) = 1
    /\ calls[1].raised

====
